---- MODULE Spec2Model ----
(***************************************************************************)
(* Model of the backtesting and ranking engine of the autopicker:          *)
(*   NHLApiClient (nhl_api_client.py)  - the remote data gateway and the   *)
(*                                       player stat aggregator            *)
(*   run_nhl_backtest (backtest.py)    - the backtest orchestrator         *)
(*   main (main.py)                    - the live pick-and-submit run      *)
(*   evaluate_history (evaluate_history.py) - the accuracy report          *)
(* Dates are day numbers, player ids small integers, goals-per-game is     *)
(* kept in hundredths (round(x, 2) * 100).                                 *)
(***************************************************************************)
EXTENDS Integers, Sequences, FiniteSets, TLC

(* ------------------------------ bounds --------------------------------- *)
\* calendar dates are 1..MaxDay; the clock reads MaxDay
MaxDay == 2
\* sub-dates in one gameWeek payload
MaxWeekDays == 2
\* candidate-set size of the ranking-engine specification
MaxCands == 3
\* rows of one seasonTotals list of the season-scan specification
MaxRows == 4
\* entries of the history read by evaluate_history
MaxEntries == 2

(* --------------------------- program constants ------------------------- *)
\* SEASON, from the clock (nhl_api_client.py:19-25)
Season == 20252026
\* range(1, 4) in the two retry loops
MaxAttempts == 3
\* the report's fixed number of pick columns, range(3)
ReportPicks == 3
\* top_n's default
DefaultTopN == 3
\* the contest's player sets, range(3) in main
PlayerSets == 3

PrevSeason == Season - 10001
PlayerIds == {1, 2}
\* the numbers of games tried on one sub-date
GamesPerDate == {0, 1}
\* the goals of one skater in one boxscore tried: none, two
GoalsInGame == {0, 2}
\* the --top values tried: none, fewer than the pool can hold, the default
TopNInputs == {0, 1, DefaultTopN}
\* goals/game of a player whose rate was never computed
Undefined == -1
Today == MaxDay

(* ------------------------------ helpers -------------------------------- *)
RECURSIVE Pow2(_)
Pow2(n) == IF n <= 0 THEN 1 ELSE 2 * Pow2(n - 1)

Min(a, b) == IF a <= b THEN a ELSE b

\* time.sleep(2 ** (attempt - 1))
BackoffDelayFromTwo(attempt) == Pow2(attempt)
BackoffDelay(attempt) == Pow2(attempt - 1)

\* round(1.0 * goals / games_played, 2), in hundredths; ties go to the even
\* hundredth.  Only called with gp > 0.
Round2(goals, gp) ==
    LET n == 100 * goals
        q == n \div gp
        r == n % gp
    IN  IF 2 * r < gp THEN q
        ELSE IF 2 * r > gp THEN q + 1
        ELSE IF q % 2 = 0 THEN q ELSE q + 1

RECURSIVE SumSeq(_)
SumSeq(s) == IF s = <<>> THEN 0 ELSE Head(s) + SumSeq(Tail(s))

\* the scan of player_data['seasonTotals'] from the back: 0 when
\* curr_season_totals stays None, else the index of the chosen row
RECURSIVE ScanSeasonTotalsNoBreak(_, _)
ScanSeasonTotalsNoBreak(rows, i) ==
    IF i = 0 THEN 0
    ELSE IF rows[i].season = Season /\ rows[i].leagueAbbrev = "NHL" THEN i
    ELSE ScanSeasonTotalsNoBreak(rows, i - 1)

RECURSIVE ScanSeasonTotals(_, _)
ScanSeasonTotals(rows, i) ==
    IF i = 0 THEN 0
    ELSE IF rows[i].season # Season THEN 0
    ELSE IF rows[i].leagueAbbrev = "NHL" THEN i
    ELSE ScanSeasonTotals(rows, i - 1)

CurrSeasonTotals(rows) == ScanSeasonTotals(rows, Len(rows))

\* curr_season_totals = None
NoRow == [season |-> 0, leagueAbbrev |-> "", goals |-> 0, gamesPlayed |-> 0]

\* Player(...) before populate_player_stats has written anything
NewPlayer(pid) ==
    [id |-> pid, goals |-> 0, recent |-> 0, gpg |-> Undefined, injured |-> FALSE]

\* The outcome of populate_player_stats(player) on one landing response,
\* names being self.injured_player_names (<<>> for None, <<S>> for a set):
\*   "exit"  - the except Exception branch ran exit()
\*   "ok"    - the call returned; player holds what was written
\* row is curr_season_totals when the call ended.
\* resp.kind: "ok" (a JSON payload), "http" (raise_for_status raised
\* HTTPError), "net" (requests raised a non-HTTP RequestException),
\* "shape" (the payload lacks a field the code indexes)
PopulatePlayerStats(player, resp, names) ==
    IF resp.kind = "http"
    THEN [status |-> "ok", found |-> FALSE, row |-> NoRow, player |-> player]
    ELSE IF resp.kind \in {"net", "shape"}
    THEN [status |-> "exit", found |-> FALSE, row |-> NoRow, player |-> player]
    ELSE LET i == CurrSeasonTotals(resp.seasonTotals)
         IN  IF i = 0
             THEN [status |-> "ok", found |-> FALSE, row |-> NoRow, player |-> player]
             ELSE LET row == resp.seasonTotals[i]
                  IN  IF row.gamesPlayed = 0
                      THEN \* ZeroDivisionError at the goals_per_game line
                           [status |-> "exit", found |-> TRUE, row |-> row,
                            player |-> player]
                      ELSE IF names = <<>>
                      THEN \* `in None`: TypeError at the injured line
                           [status |-> "exit", found |-> TRUE, row |-> row,
                            player |-> player]
                      ELSE [status |-> "ok", found |-> TRUE, row |-> row,
                            player |-> [id |-> player.id,
                                        goals |-> row.goals,
                                        recent |-> player.recent + SumSeq(resp.last5Games),
                                        gpg |-> Round2(row.goals, row.gamesPlayed),
                                        injured |-> player.id \in names[1]]]

(* ------------------------------ ranking -------------------------------- *)
\* sort_values(by=['goals', 'recent goals', 'goals/game'],
\*             ascending=[False, False, False]): a missing goals/game (NaN)
\* sorts last
GpgKey(row) == IF row.gpg = Undefined THEN -1 ELSE row.gpg

LexBeforeRecentFirst(a, b) ==
    \/ a.recent > b.recent
    \/ a.recent = b.recent /\ a.goals > b.goals
    \/ a.recent = b.recent /\ a.goals = b.goals /\ GpgKey(a) > GpgKey(b)

LexBefore(a, b) ==
    \/ a.goals > b.goals
    \/ a.goals = b.goals /\ a.recent > b.recent
    \/ a.goals = b.goals /\ a.recent = b.recent /\ GpgKey(a) > GpgKey(b)

\* row goes behind every row it does not strictly precede (a stable sort)
RECURSIVE InsertRowFront(_, _)
InsertRowFront(row, sorted) ==
    IF sorted = <<>> THEN <<row>>
    ELSE IF ~LexBefore(Head(sorted), row) THEN <<row>> \o sorted
    ELSE <<Head(sorted)>> \o InsertRowFront(row, Tail(sorted))

RECURSIVE InsertRow(_, _)
InsertRow(row, sorted) ==
    IF sorted = <<>> THEN <<row>>
    ELSE IF LexBefore(row, Head(sorted)) THEN <<row>> \o sorted
    ELSE <<Head(sorted)>> \o InsertRow(row, Tail(sorted))

RECURSIVE SortValues(_)
SortValues(rows) ==
    IF rows = <<>> THEN <<>>
    ELSE InsertRow(rows[Len(rows)], SortValues(SubSeq(rows, 1, Len(rows) - 1)))

\* DataFrame.head(n), n >= 0
HeadRowsFirst(rows, n) == SubSeq(rows, 1, Min(Min(n, 1), Len(rows)))
HeadRows(rows, n) == SubSeq(rows, 1, Min(n, Len(rows)))

(* ------------------------- environment inputs -------------------------- *)
\* One HTTP request either answers 2xx with a body ("ok"), answers 4xx/5xx
\* so that raise_for_status raises HTTPError ("http"), or fails below HTTP
\* with another RequestException such as a timeout ("net").

\* the schedule endpoint's gameWeek: consecutive sub-dates from the
\* requested date on, each with its number of games
GameWeeks(date) ==
    UNION {{[i \in 1..n |-> [date |-> date + i - 1, games |-> g[i]]] :
               g \in [1..n -> GamesPerDate]} : n \in 0..MaxWeekDays}

\* response.json() of the schedule endpoint, in the three shapes the
\* normalisation tells apart: a dict with 'dates', a list, another dict
SchedulePayloads(date) ==
    {[shape |-> sh, dates |-> <<>>, gameWeek |-> <<>>] : sh \in {"dates", "list"}}
    \cup {[shape |-> "dict", dates |-> <<>>, gameWeek |-> w] : w \in GameWeeks(date)}

ScheduleResponses(date) ==
    {[kind |-> k, data |-> [shape |-> "list", dates |-> <<>>, gameWeek |-> <<>>]] :
        k \in {"http", "net"}}
    \cup [kind : {"ok"}, data : SchedulePayloads(date)]

\* one boxscore: gameState and the skaters of awayTeam and homeTeam,
\* forwards then defense, in payload order
BoxPlayers ==
    UNION {[1..n -> [playerId : PlayerIds, goals : GoalsInGame]] :
              n \in 0..Cardinality(PlayerIds)}

BoxscoreResponses ==
    {[kind |-> k, gameState |-> "", players |-> <<>>] : k \in {"http", "net"}}
    \cup [kind : {"ok"}, gameState : {"FUT", "OFF"}, players : BoxPlayers]

NhlRow(s, g, gp) ==
    [season |-> s, leagueAbbrev |-> "NHL", goals |-> g, gamesPlayed |-> gp]
AhlRow(s) ==
    [season |-> s, leagueAbbrev |-> "AHL", goals |-> 1, gamesPlayed |-> 1]

\* the landing endpoint's answers tried for one player: two players with a
\* season row (2 goals in 2 games, 1 goal in 2 games), a season row with no
\* game played, three payloads without a season row, the three failures,
\* and "ctor": building the Player from pinfo raises inside
\* run_nhl_backtest's try
LandingPayloads ==
    {[seasonTotals |-> <<NhlRow(PrevSeason, 1, 1), NhlRow(Season, 2, 2), AhlRow(Season)>>,
      last5Games |-> <<0, 1>>],
     [seasonTotals |-> <<NhlRow(Season, 1, 2)>>, last5Games |-> <<>>],
     [seasonTotals |-> <<NhlRow(Season, 1, 0)>>, last5Games |-> <<>>],
     [seasonTotals |-> <<NhlRow(Season, 1, 1), NhlRow(PrevSeason, 1, 1)>>,
      last5Games |-> <<1>>],
     [seasonTotals |-> <<AhlRow(Season)>>, last5Games |-> <<1>>],
     [seasonTotals |-> <<>>, last5Games |-> <<>>]}

LandingResponses ==
    {[kind |-> k, seasonTotals |-> <<>>, last5Games |-> <<>>] :
        k \in {"http", "net", "shape", "ctor"}}
    \cup {[kind |-> "ok", seasonTotals |-> p.seasonTotals, last5Games |-> p.last5Games] :
             p \in LandingPayloads}

(* ------------------------------- state --------------------------------- *)
VARIABLES
    start, end, top_n,   \* run_nhl_backtest's arguments, dates as day numbers
    cur,                 \* the loop's date
    pc,                  \* where the run is
    call,                \* the gateway call made last: "none", "schedule", "boxscore", "landing"
    attempt,             \* the retry loop's attempt of the gateway call
    waits,               \* the sleeps of the gateway call in flight or last returned
    outcome,             \* what the last request did: "none", "ok", "http", "net", ...
    logged,              \* the last line the gateway call logged: "none", "error", "warning"
    sched,               \* the schedule as returned, then the sub-dates left to collect
    players_seen,        \* insertion-ordered dict: sequence of [id, goals_today]
    scorers,             \* set of player ids
    pidx,                \* how many entries of players_seen the per-player loop has done
    stats_list,          \* rows [id, goals, recent, gpg, scored_today]
    not_found,           \* the day's players whose stats were not obtained
    results,             \* rows [date, picks, correct, total]
    report,              \* the CSV's data rows once written
    abort,               \* "none", or the exception that ended the run
    days,                \* history: [date, empty, nogames] of each schedule fetched
    df, sorted_df,       \* the ranking engine's input and output (SpecRank)
    injury_fetch,        \* what the injury-report request of __init__ did
    injured_player_names,\* <<>> for None, <<S>> for the set S of injured players
    curr_season_totals,  \* populate_player_stats' local: the season row chosen
    tally,               \* history: id -> goals over the day's collected boxscores
    played,              \* history: the day's boxscores collected in a state other than FUT
    season_totals,       \* a landing payload's seasonTotals (SpecScan)
    TEST,                \* main: args.test, "absent" for the default False
    games_and_player_data, \* main: the contest payload
    dfs,                 \* main: the sorted frames of the player sets
    selected_player_ids, \* main: the ids of the picks
    picks_json,          \* main: <<>>, or <<ids>> once store_picks wrote ids
    submitted,           \* main: the id lists passed to submit_picks, in order
    remaining,           \* evaluate_history: the history entries not yet iterated
    entry,               \* evaluate_history: the picks of the entry iterated last
    total_days, total_picks, total_correct,
    per_set,             \* evaluate_history: set id -> [correct, total]
    per_day_details,     \* evaluate_history: rows [total, correct]
    overall_accuracy     \* evaluate_history: in whole percent, -1 before it is computed

vars == <<start, end, top_n, cur, pc, call, attempt, waits, outcome, logged, sched,
          players_seen, scorers, pidx, stats_list, not_found, results, report,
          abort, days, df, sorted_df, injury_fetch, injured_player_names,
          curr_season_totals, tally, played, season_totals, TEST,
          games_and_player_data, dfs, selected_player_ids, picks_json, submitted,
          remaining, entry, total_days, total_picks, total_correct, per_set,
          per_day_details, overall_accuracy>>

gatewayVars == <<call, attempt, waits, outcome, logged>>
dayVars == <<players_seen, scorers, pidx, stats_list, not_found, curr_season_totals>>
rankVars == <<df, sorted_df>>
clientVars == <<injury_fetch, injured_player_names>>
tallyVars == <<tally, played>>
\* the state of the other entry points and engines
scanVars == <<season_totals>>
liveVars == <<TEST, games_and_player_data, dfs, selected_player_ids, picks_json,
              submitted>>
historyVars == <<remaining, entry, total_days, total_picks, total_correct, per_set,
                 per_day_details, overall_accuracy>>
otherVars == <<scanVars, liveVars, historyVars>>

\* games_and_player_data before get_games_and_players has returned
NoContestData == [code |-> "", picks |-> <<>>, sets |-> <<>>]

\* the state main and evaluate_history have before they run
OtherInit ==
    /\ season_totals = <<>>
    /\ TEST = "absent"
    /\ games_and_player_data = NoContestData
    /\ dfs = <<>>
    /\ selected_player_ids = <<>>
    /\ picks_json = <<>>
    /\ submitted = <<>>
    /\ remaining = 0
    /\ entry = <<>>
    /\ total_days = 0
    /\ total_picks = 0
    /\ total_correct = 0
    /\ per_set = <<>>
    /\ per_day_details = <<>>
    /\ overall_accuracy = -1
argVars == <<start, end, top_n>>

Init ==
    /\ start \in 1..MaxDay
    /\ end \in 0..MaxDay
    /\ top_n \in TopNInputs
    /\ cur = start
    /\ pc = "init"
    /\ call = "none"
    /\ attempt = 0
    /\ waits = <<>>
    /\ outcome = "none"
    /\ logged = "none"
    /\ sched = <<>>
    /\ players_seen = <<>>
    /\ scorers = {}
    /\ pidx = 0
    /\ stats_list = <<>>
    /\ not_found = {}
    /\ results = <<>>
    /\ report = <<>>
    /\ abort = "none"
    /\ days = <<>>
    /\ df = <<>>
    /\ sorted_df = <<>>
    /\ injury_fetch = "none"
    /\ injured_player_names = <<>>
    /\ curr_season_totals = NoRow
    /\ tally = <<>>
    /\ played = 0
    /\ OtherInit

\* the injury report's answers tried: nobody injured, player 1 injured
InjuryReports == {{}, {1}}

\* nhl_api_client = NHLApiClient(): __init__ makes the one injury-report
\* request.  A 2xx answer gives the set of names; HTTPError is caught and
\* logged and the method falls off its end, returning None; any other
\* RequestException is not caught and leaves __init__ and the module.
Construct ==
    /\ pc = "init"
    /\ \E kind \in {"ok", "http", "net"} :
          /\ injury_fetch' = kind
          /\ CASE kind = "ok" ->
                    /\ \E names \in InjuryReports : injured_player_names' = <<names>>
                    /\ pc' = "loop"
                    /\ UNCHANGED abort
               [] kind = "http" ->
                    /\ injured_player_names' = <<>>
                    /\ pc' = "loop"
                    /\ UNCHANGED abort
               [] OTHER ->
                    /\ abort' = "RequestException"
                    /\ pc' = "crashed"
                    /\ UNCHANGED injured_player_names
    /\ UNCHANGED <<argVars, cur, gatewayVars, sched, dayVars, results, report, days,
                   rankVars, tallyVars, otherVars>>

(* --------------------------- run_nhl_backtest -------------------------- *)
\* while cur <= e_date
LoopTest ==
    /\ pc = "loop"
    /\ IF cur <= end
       THEN /\ pc' = "sched"
            /\ call' = "schedule"
            /\ attempt' = 1
            /\ waits' = <<>>
            /\ outcome' = "none"
            /\ logged' = "none"
       ELSE /\ pc' = "report"
            /\ UNCHANGED gatewayVars
    /\ UNCHANGED <<argVars, cur, sched, dayVars, results, report, abort, days, rankVars,
                   clientVars, tallyVars, otherVars>>

\* data.get('dates', []) / data / [data]: a list of date entries
NormalizeSchedule(data) ==
    IF data.shape = "dates" THEN data.dates
    ELSE IF data.shape = "list" THEN data.dates
    ELSE <<[gameWeek |-> data.gameWeek]>>

\* one attempt of get_schedule_for_date(date_str)
ScheduleRequest ==
    /\ pc = "sched"
    /\ \E resp \in ScheduleResponses(cur) :
          /\ outcome' = resp.kind
          /\ CASE resp.kind = "ok" ->
                    /\ sched' = NormalizeSchedule(resp.data)
                    /\ pc' = "gotSched"
                    /\ UNCHANGED <<attempt, waits, logged>>
               [] resp.kind = "http" ->
                    /\ logged' = "error"
                    /\ sched' = <<>>
                    /\ pc' = "gotSched"
                    /\ UNCHANGED <<attempt, waits>>
               [] OTHER ->
                    /\ logged' = "warning"
                    /\ IF attempt < MaxAttempts
                       THEN /\ waits' = Append(waits, BackoffDelay(attempt))
                            /\ attempt' = attempt + 1
                            /\ UNCHANGED <<sched, pc>>
                       ELSE /\ sched' = <<>>
                            /\ pc' = "gotSched"
                            /\ UNCHANGED <<attempt, waits>>
    /\ UNCHANGED <<argVars, cur, call, dayVars, results, report, abort, days, rankVars,
                   clientVars, tallyVars, otherVars>>

\* the sub-dates of every date entry, in iteration order
RECURSIVE FlattenSchedule(_)
FlattenSchedule(entries) ==
    IF entries = <<>> THEN <<>>
    ELSE Head(entries).gameWeek \o FlattenSchedule(Tail(entries))

RECURSIVE CountGames(_)
CountGames(week) ==
    IF week = <<>> THEN 0 ELSE Head(week).games + CountGames(Tail(week))

\* the loops over gameWeek and games up to the next get_game_boxscore call:
\* a sub-date after today is skipped whole, an exhausted one is left
SkipFutureDateNever(week) == week
SkipFutureDate(week) ==
    IF week # <<>> /\ Head(week).date > Today THEN Tail(week) ELSE week

RECURSIVE NextGame(_)
NextGame(week) ==
    IF week = <<>> THEN <<>>
    ELSE IF SkipFutureDate(week) # week THEN NextGame(SkipFutureDate(week))
    ELSE IF Head(week).games = 0 THEN NextGame(Tail(week))
    ELSE week

\* the sub-dates left once the game in flight is done
GameDone(week) ==
    NextGame(<<[Head(week) EXCEPT !.games = @ - 1]>> \o Tail(week))

AfterCollect(seen) == IF seen = <<>> THEN "rank" ELSE "populate"

\* if not sched or len(sched) == 0: skip the date; else start collecting
CheckSchedule ==
    /\ pc = "gotSched"
    /\ days' = Append(days, [date |-> cur, empty |-> Len(sched) = 0,
                             nogames |-> CountGames(FlattenSchedule(sched)) = 0])
    /\ IF Len(sched) = 0
       THEN /\ cur' = cur + 1
            /\ pc' = "loop"
            /\ UNCHANGED <<sched, dayVars, tallyVars, gatewayVars>>
       ELSE /\ players_seen' = <<>>
            /\ scorers' = {}
            /\ pidx' = 0
            /\ stats_list' = <<>>
            /\ not_found' = {}
            /\ curr_season_totals' = NoRow
            /\ tally' = <<>>
            /\ played' = 0
            /\ sched' = NextGame(FlattenSchedule(sched))
            /\ IF sched' = <<>>
               THEN /\ pc' = AfterCollect(<<>>)
                    /\ UNCHANGED gatewayVars
               ELSE /\ pc' = "box"
                    /\ call' = "boxscore"
                    /\ attempt' = 1
                    /\ waits' = <<>>
                    /\ outcome' = "none"
                    /\ logged' = "none"
            /\ UNCHANGED cur
    /\ UNCHANGED <<argVars, results, report, abort, rankVars, clientVars, otherVars>>

\* players_seen[player_id] = {...}: a new key goes last, a known key keeps
\* its place and gets the new value
DictSet(seen, pid, goals) ==
    IF \E i \in 1..Len(seen) : seen[i].id = pid
    THEN [i \in 1..Len(seen) |->
             IF seen[i].id = pid THEN [id |-> pid, goals_today |-> goals] ELSE seen[i]]
    ELSE Append(seen, [id |-> pid, goals_today |-> goals])

\* the loops over team sides, positions and players of one boxscore
RECURSIVE CollectPlayersLastOnly(_, _)
CollectPlayersLastOnly(day, players) ==
    IF players = <<>> THEN day
    ELSE LET p == Head(players)
         IN  CollectPlayersLastOnly(
                 [seen |-> DictSet(day.seen, p.playerId, p.goals),
                  scorers |-> IF p.goals > 0 THEN day.scorers \cup {p.playerId}
                              ELSE day.scorers \ {p.playerId}],
                 Tail(players))

RECURSIVE CollectPlayers(_, _)
CollectPlayers(day, players) ==
    IF players = <<>> THEN day
    ELSE LET p == Head(players)
         IN  CollectPlayers(
                 [seen |-> DictSet(day.seen, p.playerId, p.goals),
                  scorers |-> IF p.goals > 0 THEN day.scorers \cup {p.playerId}
                              ELSE day.scorers],
                 Tail(players))

\* whether the name game_pk, which both except branches of
\* get_game_boxscore(self, game_id) format into their message, is bound
GamePkBound == FALSE

\* the run goes on after get_game_boxscore returned box: a FUT game is
\* skipped, a box without playerByGameStats adds nobody
BoxReturned(box) ==
    /\ LET day == IF box.gameState = "FUT"
                  THEN [seen |-> players_seen, scorers |-> scorers]
                  ELSE CollectPlayers([seen |-> players_seen, scorers |-> scorers],
                                      box.players)
       IN  /\ players_seen' = day.seen
           /\ scorers' = day.scorers
    /\ sched' = GameDone(sched)
    /\ IF sched' = <<>>
       THEN /\ pc' = AfterCollect(players_seen')
            /\ UNCHANGED <<attempt, waits>>
       ELSE /\ pc' = "box"
            /\ attempt' = 1
            /\ waits' = <<>>
    /\ UNCHANGED abort

\* evaluating an except branch's f-string raises NameError, which leaves
\* get_game_boxscore and run_nhl_backtest
RaiseNameError ==
    /\ abort' = "NameError"
    /\ pc' = "crashed"
    /\ UNCHANGED <<sched, players_seen, scorers, attempt, waits>>

EmptyBox == [kind |-> "ok", gameState |-> "", players |-> <<>>]

\* history: the goals of one collected boxscore added to the day's totals
TallyAdd(t, pid, goals) ==
    [q \in DOMAIN t \cup {pid} |->
        (IF q \in DOMAIN t THEN t[q] ELSE 0) + (IF q = pid THEN goals ELSE 0)]

RECURSIVE TallyBox(_, _)
TallyBox(t, players) ==
    IF players = <<>> THEN t
    ELSE TallyBox(TallyAdd(t, Head(players).playerId, Head(players).goals),
                  Tail(players))

\* history: what the boxscore that game's iteration got adds to the day
TallyReturned(box) ==
    IF box.gameState = "FUT" THEN UNCHANGED tallyVars
    ELSE /\ tally' = TallyBox(tally, box.players)
         /\ played' = played + 1

\* one attempt of get_game_boxscore(game_id) and, when it returns, the rest
\* of the game's iteration
BoxscoreRequest ==
    /\ pc = "box"
    /\ \E resp \in BoxscoreResponses :
          /\ outcome' = resp.kind
          /\ CASE resp.kind = "ok" ->
                    /\ BoxReturned(resp)
                    /\ TallyReturned(resp)
                    /\ logged' = "none"
               [] resp.kind = "http" ->
                    IF GamePkBound
                    THEN /\ logged' = "error"
                         /\ BoxReturned(EmptyBox)
                         /\ TallyReturned(EmptyBox)
                    ELSE /\ RaiseNameError
                         /\ UNCHANGED <<logged, tallyVars>>
               [] OTHER ->
                    IF GamePkBound
                    THEN /\ logged' = "warning"
                         /\ IF attempt < MaxAttempts
                            THEN /\ waits' = Append(waits, BackoffDelay(attempt))
                                 /\ attempt' = attempt + 1
                                 /\ UNCHANGED <<sched, players_seen, scorers, pc, abort,
                                                tallyVars>>
                            ELSE /\ BoxReturned(EmptyBox)
                                 /\ TallyReturned(EmptyBox)
                    ELSE /\ RaiseNameError
                         /\ UNCHANGED <<logged, tallyVars>>
    /\ UNCHANGED <<argVars, cur, call, pidx, stats_list, not_found, curr_season_totals,
                   results, report, days, rankVars, clientVars, otherVars>>

\* player.dict() plus the scored_today flag
StatsRow(player, scored) ==
    [id |-> player.id, goals |-> player.goals, recent |-> player.recent,
     gpg |-> player.gpg, scored_today |-> scored]

\* one iteration of the loop over players_seen.items()
PopulatePlayer ==
    /\ pc = "populate"
    /\ pidx < Len(players_seen)
    /\ LET pid == players_seen[pidx + 1].id
       IN  \E resp \in LandingResponses :
              /\ outcome' = resp.kind
              /\ call' = IF resp.kind = "ctor" THEN call ELSE "landing"
              /\ IF resp.kind = "ctor"
                 THEN \* except Exception: print, continue
                      /\ pidx' = pidx + 1
                      /\ pc' = IF pidx' = Len(players_seen) THEN "rank" ELSE "populate"
                      /\ curr_season_totals' = NoRow
                      /\ UNCHANGED <<stats_list, not_found, abort>>
                 ELSE LET r == PopulatePlayerStats(NewPlayer(pid), resp,
                                                   injured_player_names)
                      IN  /\ curr_season_totals' = r.row
                          /\ IF r.status = "exit"
                             THEN \* SystemExit is no Exception: it leaves the run
                                  /\ abort' = "SystemExit"
                                  /\ pc' = "crashed"
                                  /\ UNCHANGED <<pidx, stats_list, not_found>>
                             ELSE /\ stats_list' =
                                        Append(stats_list,
                                               StatsRow(r.player, pid \in scorers))
                                  /\ not_found' = IF r.found THEN not_found
                                                  ELSE not_found \cup {pid}
                                  /\ pidx' = pidx + 1
                                  /\ pc' = IF pidx' = Len(players_seen) THEN "rank"
                                           ELSE "populate"
                                  /\ UNCHANGED abort
    /\ UNCHANGED <<argVars, cur, attempt, waits, logged, sched, players_seen, scorers,
                   results, report, days, rankVars, clientVars, tallyVars, otherVars>>

\* correct += 1 for every pick whose scored_today is set
CountScoredAll(rows) == Len(rows)
RECURSIVE CountScored(_)
CountScored(rows) ==
    IF rows = <<>> THEN 0
    ELSE (IF Head(rows).scored_today THEN 1 ELSE 0) + CountScored(Tail(rows))

\* the day's result row from the ranked frame
DayResult(date, rows, n) ==
    LET top == HeadRows(SortValues(rows), n)
    IN  [date |-> date,
         picks |-> [i \in 1..Len(top) |-> [id |-> top[i].id, scored |-> top[i].scored_today]],
         correct |-> CountScored(top),
         total |-> Len(top)]

\* the iteration's locals hold nothing once the iteration has ended
DayVarsCleared ==
    /\ players_seen' = <<>>
    /\ scorers' = {}
    /\ pidx' = 0
    /\ stats_list' = <<>>
    /\ not_found' = {}
    /\ curr_season_totals' = NoRow
    /\ tally' = <<>>
    /\ played' = 0
    /\ sched' = <<>>

\* df.empty
DfEmptyNever(rows) == FALSE
DfEmpty(rows) == rows = <<>>

\* df.empty: skip the date; else rank, take the picks, score them, append
RankAndScore ==
    /\ pc = "rank"
    /\ IF DfEmpty(stats_list)
       THEN /\ cur' = cur + 1
            /\ pc' = "loop"
            /\ DayVarsCleared
            /\ UNCHANGED results
       ELSE /\ results' = Append(results, DayResult(cur, stats_list, top_n))
            /\ pc' = "scored"
            /\ UNCHANGED <<cur, sched, dayVars, tallyVars>>
    /\ UNCHANGED <<argVars, gatewayVars, report, abort, days, rankVars,
                   clientVars, otherVars>>

\* cur += timedelta(days=1) at the end of the loop body
Advance ==
    /\ pc = "scored"
    /\ cur' = cur + 1
    /\ pc' = "loop"
    /\ DayVarsCleared
    /\ UNCHANGED <<argVars, gatewayVars, results, report, abort, days, rankVars,
                   clientVars, otherVars>>

\* one CSV row: date, three ids ('' for a missing pick), correct, total
ReportRow(r) ==
    [date |-> r.date,
     ids |-> [i \in 1..ReportPicks |-> IF i <= Len(r.picks) THEN r.picks[i].id ELSE 0],
     correct |-> r.correct,
     total |-> r.total]

WriteReport ==
    /\ pc = "report"
    /\ report' = [i \in 1..Len(results) |-> ReportRow(results[i])]
    /\ pc' = "done"
    /\ UNCHANGED <<argVars, cur, gatewayVars, sched, dayVars, results, abort, days,
                   rankVars, clientVars, tallyVars, otherVars>>

Next ==
    \/ Construct
    \/ LoopTest
    \/ ScheduleRequest
    \/ CheckSchedule
    \/ BoxscoreRequest
    \/ PopulatePlayer
    \/ RankAndScore
    \/ Advance
    \/ WriteReport

Spec == Init /\ [][Next]_vars

(* --------------------------- ranking engine ---------------------------- *)
\* The ranking applied to one candidate set, as lines 126-128 of
\* run_nhl_backtest and lines 133-136 of main apply it.  A candidate's id is
\* its position in the candidate set.
CandidateKeys ==
    [goals : {0, 1}, recent : {0, 1}, gpg : {Undefined, 0, 50}]

Candidate(i, k) ==
    [id |-> i, goals |-> k.goals, recent |-> k.recent, gpg |-> k.gpg,
     scored_today |-> FALSE]

InitRank ==
    /\ start = 1
    /\ end = 0
    /\ top_n = DefaultTopN
    /\ cur = 1
    /\ pc = "candidates"
    /\ call = "none"
    /\ attempt = 0
    /\ waits = <<>>
    /\ outcome = "none"
    /\ logged = "none"
    /\ sched = <<>>
    /\ players_seen = <<>>
    /\ scorers = {}
    /\ pidx = 0
    /\ stats_list = <<>>
    /\ not_found = {}
    /\ results = <<>>
    /\ report = <<>>
    /\ abort = "none"
    /\ days = <<>>
    /\ df = <<>>
    /\ sorted_df = <<>>
    /\ injury_fetch = "none"
    /\ injured_player_names = <<{}>>
    /\ curr_season_totals = NoRow
    /\ tally = <<>>
    /\ played = 0
    /\ OtherInit

\* one more row of the frame
AddCandidate ==
    /\ pc = "candidates"
    /\ Len(df) < MaxCands
    /\ \E k \in CandidateKeys : df' = Append(df, Candidate(Len(df) + 1, k))
    /\ UNCHANGED <<argVars, cur, pc, gatewayVars, sched, dayVars, results, report,
                   abort, days, sorted_df, clientVars, tallyVars, otherVars>>

\* sorted_df = df.sort_values(...)
RankCandidates ==
    /\ pc = "candidates"
    /\ sorted_df' = SortValues(df)
    /\ pc' = "ranked"
    /\ UNCHANGED <<argVars, cur, gatewayVars, sched, dayVars, results, report,
                   abort, days, df, clientVars, tallyVars, otherVars>>

NextRank == AddCandidate \/ RankCandidates

SpecRank == InitRank /\ [][NextRank]_vars

(* ----------------------------- season scan ----------------------------- *)
\* The scan of populate_player_stats applied to one seasonTotals list.  A
\* row's goals hold its position in the list, so that equal-looking rows of
\* different positions differ.
InitScan ==
    /\ start = 1
    /\ end = 0
    /\ top_n = DefaultTopN
    /\ cur = 1
    /\ pc = "rows"
    /\ call = "none"
    /\ attempt = 0
    /\ waits = <<>>
    /\ outcome = "none"
    /\ logged = "none"
    /\ sched = <<>>
    /\ players_seen = <<>>
    /\ scorers = {}
    /\ pidx = 0
    /\ stats_list = <<>>
    /\ not_found = {}
    /\ results = <<>>
    /\ report = <<>>
    /\ abort = "none"
    /\ days = <<>>
    /\ df = <<>>
    /\ sorted_df = <<>>
    /\ injury_fetch = "ok"
    /\ injured_player_names = <<{}>>
    /\ curr_season_totals = NoRow
    /\ tally = <<>>
    /\ played = 0
    /\ OtherInit

\* one more row of player_data['seasonTotals']
AddSeasonRow ==
    /\ pc = "rows"
    /\ Len(season_totals) < MaxRows
    /\ \E s \in {Season, PrevSeason}, l \in {"NHL", "AHL"} :
          season_totals' =
              Append(season_totals,
                     [season |-> s, leagueAbbrev |-> l,
                      goals |-> Len(season_totals) + 1, gamesPlayed |-> 1])
    /\ UNCHANGED <<argVars, cur, pc, gatewayVars, sched, dayVars, results, report,
                   abort, days, rankVars, clientVars, tallyVars, liveVars,
                   historyVars>>

\* curr_season_totals = None, then the loop over reversed(seasonTotals)
ScanRows ==
    /\ pc = "rows"
    /\ curr_season_totals' =
          (IF CurrSeasonTotals(season_totals) = 0 THEN NoRow
           ELSE season_totals[CurrSeasonTotals(season_totals)])
    /\ pc' = "scanned"
    /\ UNCHANGED <<argVars, cur, gatewayVars, sched, players_seen, scorers, pidx,
                   stats_list, not_found, results, report, abort, days, rankVars,
                   clientVars, tallyVars, otherVars>>

NextScan == AddSeasonRow \/ ScanRows

SpecScan == InitScan /\ [][NextScan]_vars

(* ------------------------------ live run ------------------------------- *)
\* main() of main.py from get_games_and_players on.

\* the command lines tried: no --test, and --test with three values
TestArgs == {"absent", "True", "False", ""}

\* `TEST is False`: true of the default, the object False, and of no string
\* that argparse stores for a value given on the command line
TestIsFalsy(arg) == arg \in {"absent", "False", ""}
TestIsFalse(arg) == arg = "absent"

\* the contest payloads tried: no contest; picks locked in (three ids, and
\* a short list); no picks yet and 0..2 players in each of the sets.
\* picks is <<>> for None and <<ids>> for a list.
ContestPayloads ==
    {[code |-> "noContest", picks |-> <<>>, sets |-> <<>>]}
    \cup {[code |-> "", picks |-> <<ids>>, sets |-> <<>>] : ids \in {<<7, 8, 9>>, <<7, 8>>}}
    \cup {[code |-> "", picks |-> <<>>, sets |-> sz] : sz \in [1..PlayerSets -> 0..2]}

\* the season keys tried for a player of a set
LiveKeys == [goals : {0, 1}, recent : {0}, gpg : {50}]

\* the frame of player set i: one row per player, the tims id telling the
\* set and the player's place in it
SetFrame(i, keys) == [j \in 1..Len(keys) |-> Candidate(10 * i + j, keys[j])]

\* main() after parse_args: TEST = args.test
InitMain ==
    /\ start = 1
    /\ end = 0
    /\ top_n = DefaultTopN
    /\ cur = 1
    /\ pc = "contest"
    /\ call = "none"
    /\ attempt = 0
    /\ waits = <<>>
    /\ outcome = "none"
    /\ logged = "none"
    /\ sched = <<>>
    /\ players_seen = <<>>
    /\ scorers = {}
    /\ pidx = 0
    /\ stats_list = <<>>
    /\ not_found = {}
    /\ results = <<>>
    /\ report = <<>>
    /\ abort = "none"
    /\ days = <<>>
    /\ df = <<>>
    /\ sorted_df = <<>>
    /\ injury_fetch = "none"
    /\ injured_player_names = <<>>
    /\ curr_season_totals = NoRow
    /\ tally = <<>>
    /\ played = 0
    /\ season_totals = <<>>
    /\ TEST \in TestArgs
    /\ games_and_player_data = NoContestData
    /\ dfs = <<>>
    /\ selected_player_ids = <<>>
    /\ picks_json = <<>>
    /\ submitted = <<>>
    /\ remaining = 0
    /\ entry = <<>>
    /\ total_days = 0
    /\ total_picks = 0
    /\ total_correct = 0
    /\ per_set = <<>>
    /\ per_day_details = <<>>
    /\ overall_accuracy = -1

\* get_games_and_players() and the three early returns
GetGamesAndPlayers ==
    /\ pc = "contest"
    /\ \E data \in ContestPayloads :
          /\ games_and_player_data' = data
          /\ IF data.code = "noContest"
             THEN /\ pc' = "exit"
                  /\ UNCHANGED <<picks_json, abort>>
             ELSE IF data.picks # <<>>
             THEN \* store the locked picks, log three of them, return
                  /\ picks_json' = <<data.picks[1]>>
                  /\ IF Len(data.picks[1]) < PlayerSets
                     THEN /\ abort' = "IndexError"
                          /\ pc' = "crashed"
                     ELSE /\ pc' = "exit"
                          /\ UNCHANGED abort
             ELSE IF data.sets[1] = 0
             THEN /\ pc' = "exit"
                  /\ UNCHANGED <<picks_json, abort>>
             ELSE /\ pc' = "client"
                  /\ UNCHANGED <<picks_json, abort>>
    /\ UNCHANGED <<argVars, cur, gatewayVars, sched, dayVars, results, report, days,
                   rankVars, clientVars, tallyVars, scanVars, TEST, dfs,
                   selected_player_ids, submitted, historyVars>>

\* nhl_api_client = NHLApiClient()
ConstructLive ==
    /\ pc = "client"
    /\ \E kind \in {"ok", "http", "net"} :
          /\ injury_fetch' = kind
          /\ CASE kind = "ok" ->
                    /\ \E names \in InjuryReports : injured_player_names' = <<names>>
                    /\ pc' = "tabulate"
                    /\ UNCHANGED abort
               [] kind = "http" ->
                    /\ injured_player_names' = <<>>
                    /\ pc' = "tabulate"
                    /\ UNCHANGED abort
               [] OTHER ->
                    /\ abort' = "RequestException"
                    /\ pc' = "crashed"
                    /\ UNCHANGED injured_player_names
    /\ UNCHANGED <<argVars, cur, gatewayVars, sched, dayVars, results, report, days,
                   rankVars, tallyVars, otherVars>>

\* one iteration of the loop over the player sets: tabulate, sort, append.
\* populate_player_stats may end the run from inside tabulate_player_set.
TabulateSet ==
    /\ pc = "tabulate"
    /\ Len(dfs) < PlayerSets
    /\ LET i == Len(dfs) + 1
           n == games_and_player_data.sets[i]
       IN  \/ /\ \E keys \in [1..n -> LiveKeys] :
                     dfs' = Append(dfs, SortValues(SetFrame(i, keys)))
              /\ UNCHANGED <<pc, abort>>
           \/ /\ n > 0
              /\ abort' = "SystemExit"
              /\ pc' = "crashed"
              /\ UNCHANGED dfs
    /\ UNCHANGED <<argVars, cur, gatewayVars, sched, dayVars, results, report, days,
                   rankVars, clientVars, tallyVars, scanVars, TEST,
                   games_and_player_data, selected_player_ids, picks_json, submitted,
                   historyVars>>

\* [df.iloc[0]['tims id'] for df in dfs]: IndexError on an empty frame
SelectPicks ==
    /\ pc = "tabulate"
    /\ Len(dfs) = PlayerSets
    /\ IF \E i \in 1..PlayerSets : dfs[i] = <<>>
       THEN /\ abort' = "IndexError"
            /\ pc' = "crashed"
            /\ UNCHANGED selected_player_ids
       ELSE /\ selected_player_ids' = [i \in 1..PlayerSets |-> dfs[i][1].id]
            /\ pc' = "store"
            /\ UNCHANGED abort
    /\ UNCHANGED <<argVars, cur, gatewayVars, sched, dayVars, results, report, days,
                   rankVars, clientVars, tallyVars, scanVars, TEST,
                   games_and_player_data, dfs, picks_json, submitted, historyVars>>

\* store_picks(selected_player_names, selected_player_ids, .../picks.json)
StorePicks ==
    /\ pc = "store"
    /\ picks_json' = <<selected_player_ids>>
    /\ pc' = "submit"
    /\ UNCHANGED <<argVars, cur, gatewayVars, sched, dayVars, results, report, abort,
                   days, rankVars, clientVars, tallyVars, scanVars, TEST,
                   games_and_player_data, dfs, selected_player_ids, submitted,
                   historyVars>>

\* if TEST is False: tims_app_api.submit_picks(selected_player_ids)
SubmitPicks ==
    /\ pc = "submit"
    /\ submitted' = (IF TestIsFalse(TEST) THEN Append(submitted, selected_player_ids)
                     ELSE submitted)
    /\ pc' = "exit"
    /\ UNCHANGED <<argVars, cur, gatewayVars, sched, dayVars, results, report, abort,
                   days, rankVars, clientVars, tallyVars, scanVars, TEST,
                   games_and_player_data, dfs, selected_player_ids, picks_json,
                   historyVars>>

NextMain ==
    \/ GetGamesAndPlayers
    \/ ConstructLive
    \/ TabulateSet
    \/ SelectPicks
    \/ StorePicks
    \/ SubmitPicks

SpecMain == InitMain /\ [][NextMain]_vars

(* -------------------------- evaluate_history --------------------------- *)
\* the setId values tried, as JSON gives them: the numbers 1 and 2 and the
\* string "1"
RawSetIds == {"int 1", "str 1", "int 2"}

\* str(p.get('setId'))
Str(raw) == IF raw = "int 2" THEN "2" ELSE "1"

\* the picks tried: with or without a 'correct' key (true or false), with
\* or without a 'setId' key
PickKinds ==
    {p \in [has_correct : BOOLEAN, correct : BOOLEAN, has_set : BOOLEAN,
            setId : RawSetIds] :
        /\ p.correct => p.has_correct
        /\ ~p.has_set => p.setId = "int 1"}

\* entry.get('picks', []) of the entries tried: up to two picks
PickLists == UNION {[1..n -> PickKinds] : n \in 0..2}

\* if 'setId' not in p: continue
PickCountedAlways(p) == TRUE
PickCounted(p) == p.has_set

\* bool(p.get('correct', False))
PickCorrect(p) == p.has_correct /\ p.correct

\* per_set[set_id]['total'] += 1; per_set[set_id]['correct'] += 1 if correct
PerSetAdd(ps, set_id, correct) ==
    [k \in DOMAIN ps \cup {set_id} |->
        LET old == IF k \in DOMAIN ps THEN ps[k] ELSE [correct |-> 0, total |-> 0]
        IN  IF k = set_id
            THEN [correct |-> old.correct + (IF correct THEN 1 ELSE 0),
                  total |-> old.total + 1]
            ELSE old]

\* the loop over the picks of one counted entry: per_set, day_total and
\* day_correct after it
RECURSIVE CountPicks(_, _)
CountPicks(acc, picks) ==
    IF picks = <<>> THEN acc
    ELSE LET p == Head(picks)
         IN  IF ~PickCounted(p) THEN CountPicks(acc, Tail(picks))
             ELSE CountPicks(
                      [per_set |-> PerSetAdd(acc.per_set, Str(p.setId), PickCorrect(p)),
                       total |-> acc.total + 1,
                       correct |-> acc.correct + (IF PickCorrect(p) THEN 1 ELSE 0)],
                      Tail(picks))

\* if not picks / if not any('correct' in p for p in picks): continue
EntrySkipped(picks) ==
    \/ picks = <<>>
    \/ \A i \in 1..Len(picks) : ~picks[i].has_correct

\* (total_correct / total_picks) if total_picks else 0, in whole percent
Accuracy(correct, total) == IF total # 0 THEN (100 * correct) \div total ELSE 0

InitHistory ==
    /\ start = 1
    /\ end = 0
    /\ top_n = DefaultTopN
    /\ cur = 1
    /\ pc = "history"
    /\ call = "none"
    /\ attempt = 0
    /\ waits = <<>>
    /\ outcome = "none"
    /\ logged = "none"
    /\ sched = <<>>
    /\ players_seen = <<>>
    /\ scorers = {}
    /\ pidx = 0
    /\ stats_list = <<>>
    /\ not_found = {}
    /\ results = <<>>
    /\ report = <<>>
    /\ abort = "none"
    /\ days = <<>>
    /\ df = <<>>
    /\ sorted_df = <<>>
    /\ injury_fetch = "none"
    /\ injured_player_names = <<>>
    /\ curr_season_totals = NoRow
    /\ tally = <<>>
    /\ played = 0
    /\ season_totals = <<>>
    /\ TEST = "absent"
    /\ games_and_player_data = NoContestData
    /\ dfs = <<>>
    /\ selected_player_ids = <<>>
    /\ picks_json = <<>>
    /\ submitted = <<>>
    /\ remaining \in 0..MaxEntries
    /\ entry = <<>>
    /\ total_days = 0
    /\ total_picks = 0
    /\ total_correct = 0
    /\ per_set = <<>>
    /\ per_day_details = <<>>
    /\ overall_accuracy = -1

\* one iteration of `for entry in history`
NextEntry ==
    /\ pc = "history"
    /\ remaining > 0
    /\ remaining' = remaining - 1
    /\ \E picks \in PickLists :
          /\ entry' = picks
          /\ IF EntrySkipped(picks)
             THEN UNCHANGED <<total_days, total_picks, total_correct, per_set,
                              per_day_details>>
             ELSE LET day == CountPicks([per_set |-> per_set, total |-> 0, correct |-> 0],
                                        picks)
                  IN  /\ total_days' = total_days + 1
                      /\ per_set' = day.per_set
                      /\ total_picks' = total_picks + day.total
                      /\ total_correct' = total_correct + day.correct
                      /\ per_day_details' =
                            Append(per_day_details,
                                   [total |-> day.total, correct |-> day.correct])
    /\ UNCHANGED <<argVars, cur, pc, gatewayVars, sched, dayVars, results, report,
                   abort, days, rankVars, clientVars, tallyVars, scanVars, liveVars,
                   overall_accuracy>>

\* the line after the loop
ComputeAccuracy ==
    /\ pc = "history"
    /\ remaining = 0
    /\ overall_accuracy' = Accuracy(total_correct, total_picks)
    /\ pc' = "evaluated"
    /\ UNCHANGED <<argVars, cur, gatewayVars, sched, dayVars, results, report,
                   abort, days, rankVars, clientVars, tallyVars, scanVars, liveVars,
                   remaining, entry, total_days, total_picks, total_correct, per_set,
                   per_day_details>>

NextHistory == NextEntry \/ ComputeAccuracy

SpecHistory == InitHistory /\ [][NextHistory]_vars

(* ------------------------------- claims -------------------------------- *)
\* C1: a boxscore request that fails below HTTP never raises out of
\* get_game_boxscore: the call retries or returns the empty payload, the
\* game adds nobody, and the run goes on with the remaining games and days.
C1_BoxscoreNetworkFailureTolerated ==
    (call = "boxscore" /\ outcome = "net") => (abort = "none" /\ pc # "crashed")

\* C2: a player whose season-totals lookup found no row of the active
\* season and the NHL, or whose stats were not obtained at all, is in
\* neither the day's candidate rows nor its picks.
C2_PlayerWithoutStatsExcluded ==
    /\ \A i \in 1..Len(stats_list) : stats_list[i].id \notin not_found
    /\ pc = "scored" =>
          \A i \in 1..Len(results[Len(results)].picks) :
              results[Len(results)].picks[i].id \notin not_found

\* C3: a data-shape surprise in one player's landing payload never ends
\* the run: only that player is left out.
C3_ShapeSurpriseDoesNotEndRun ==
    (call = "landing" /\ outcome = "shape") => (abort = "none" /\ pc # "crashed")

\* the sleeps before attempt n of a gateway call: 1 s, 2 s, ...
ExpectedWaits(n) == [i \in 1..(n - 1) |-> IF i = 1 THEN 1 ELSE 2]

\* C4: get_schedule_for_date makes at most 3 attempts; attempt n > 1 is
\* made only after a network-level failure of attempt n - 1 and a wait of
\* 1 s (after attempt 1) or 2 s (after attempt 2) and nothing else; a
\* network-level failure of attempt 3 returns [] with no third wait and no
\* exception; a successful attempt returns with no wait after it.
C4_ScheduleRetryPolicy ==
    (call = "schedule" /\ pc \in {"sched", "gotSched"}) =>
        /\ attempt \in 1..3
        /\ waits = ExpectedWaits(attempt)
        /\ abort = "none"
        /\ (pc = "sched" /\ attempt > 1) => outcome = "net"
        /\ (pc = "sched" /\ attempt = 1) => outcome = "none"
        /\ (pc = "gotSched" /\ outcome = "net") =>
              (attempt = 3 /\ sched = <<>> /\ waits = <<1, 2>>)
        /\ pc = "gotSched" => outcome \in {"ok", "http", "net"}

\* the schedule call gave up after three network-level failures
C4_Witness ==
    /\ call = "schedule"
    /\ pc = "gotSched"
    /\ outcome = "net"
    /\ attempt = 3
    /\ waits = <<1, 2>>
    /\ sched = <<>>

\* C5: for get_schedule_for_date and get_game_boxscore alike, a 4xx/5xx
\* answer is logged as an error and ends the call at that attempt: no wait
\* and no retry follow, the empty result is returned and nothing is raised.
C5_HttpErrorEndsCallQuietly ==
    /\ (call = "schedule" /\ outcome = "http") =>
          /\ pc \notin {"sched", "crashed"}
          /\ pc = "gotSched" => sched = <<>>
          /\ logged = "error"
          /\ Len(waits) = attempt - 1
          /\ abort = "none"
    /\ (call = "boxscore" /\ outcome = "http") =>
          /\ pc # "crashed"
          /\ logged = "error"
          /\ Len(waits) = attempt - 1
          /\ abort = "none"

\* C6: a date whose schedule came back empty or without any game gets no
\* result row, and the run moves on to the next date.
C6_NoResultForEmptySchedule ==
    \A k \in 1..Len(days) :
        (days[k].empty \/ days[k].nogames) =>
            /\ \A i \in 1..Len(results) : results[i].date # days[k].date
            /\ days[k].empty => cur > days[k].date
            /\ cur = days[k].date => (pc = "rank" /\ abort = "none")
            /\ cur >= days[k].date
            /\ k < Len(days) => days[k + 1].date = days[k].date + 1

\* the first date had a schedule without games, the second a scored day
C6_Witness ==
    /\ Len(days) = 2
    /\ days[1].nogames /\ ~days[1].empty
    /\ pc = "scored"
    /\ Len(results) = 1
    /\ results[1].date = days[2].date

RunEnded == pc \in {"done", "crashed"}

\* C7: the dates processed are start, start + 1, ... each once and in
\* order, and the run ends only by writing the report after the end date:
\* every date of start..end was then processed; with start > end no date is
\* processed, the report has no row and nothing is raised.
C7_EveryDateProcessedOnce ==
    /\ \A k \in 1..Len(days) : days[k].date = start + k - 1
    /\ RunEnded =>
          /\ pc = "done"
          /\ abort = "none"
          /\ Len(days) = (IF start > end THEN 0 ELSE end - start + 1)
          /\ Len(report) = Len(results)
    /\ (RunEnded /\ start > end) => (days = <<>> /\ report = <<>>)

\* the ranked frame holds the candidate set's rows, each once
IsPermutation(a, b) ==
    /\ Len(a) = Len(b)
    /\ \A i \in 1..Len(b) : \E j \in 1..Len(a) : a[j] = b[i]
    /\ \A i, j \in 1..Len(a) : a[i] = a[j] => i = j

SameKeys(a, b) == a.goals = b.goals /\ a.recent = b.recent /\ a.gpg = b.gpg

\* C8: the ranked frame is the candidate set ordered by (season goals,
\* recentGoals, goalsPerGame), all descending: of any two candidates the one
\* with more goals stands first whatever the other keys are; on equal goals
\* the one with more recent goals; on equal goals and recent goals the one
\* with the larger goals per game.
C8_RankingIsLexicographic ==
    pc = "ranked" =>
        /\ IsPermutation(sorted_df, df)
        /\ \A i, j \in 1..Len(sorted_df) :
              LET a == sorted_df[i]
                  b == sorted_df[j]
              IN  /\ a.goals > b.goals => i < j
                  /\ (a.goals = b.goals /\ a.recent > b.recent) => i < j
                  /\ (a.goals = b.goals /\ a.recent = b.recent
                      /\ a.gpg # Undefined /\ b.gpg # Undefined /\ a.gpg > b.gpg) => i < j

\* a ranked frame of three candidates in which each key decided a place:
\* the first leads on goals although it trails on both other keys
C8_Witness ==
    /\ pc = "ranked"
    /\ Len(sorted_df) = 3
    /\ sorted_df[1].goals > sorted_df[2].goals
    /\ sorted_df[1].recent < sorted_df[2].recent
    /\ sorted_df[1].gpg # Undefined /\ sorted_df[1].gpg < sorted_df[2].gpg
    /\ sorted_df[2].goals = sorted_df[3].goals
    /\ sorted_df[2].recent > sorted_df[3].recent
    /\ sorted_df[1].id > sorted_df[2].id

\* C9: the ranking is stable: candidates equal on goals, recent goals and
\* goals per game keep the relative order they had in the candidate set;
\* ranking the ranked frame again changes neither the order nor the top-N
\* picks.
C9_RankingIsStable ==
    pc = "ranked" =>
        /\ \A i, j \in 1..Len(sorted_df) :
              (i < j /\ SameKeys(sorted_df[i], sorted_df[j]))
                  => sorted_df[i].id < sorted_df[j].id
        /\ SortValues(sorted_df) = sorted_df
        /\ \A n \in TopNInputs :
              HeadRows(SortValues(sorted_df), n) = HeadRows(SortValues(df), n)

\* three candidates, the first and the last of the candidate set tied on
\* every key and ranked ahead of the second
C9_Witness ==
    /\ pc = "ranked"
    /\ Len(df) = 3
    /\ SameKeys(df[1], df[3])
    /\ ~SameKeys(df[1], df[2])
    /\ sorted_df[1].id = 1
    /\ sorted_df[2].id = 3
    /\ sorted_df[3].id = 2

\* C10: every pick of an emitted day result is marked scored exactly when
\* the player is among the day's scorers; correct counts the picks marked
\* scored, total counts the picks and is min(N, rows of the day's candidate
\* frame); 0 <= correct <= total <= N for every result emitted.
C10_PicksScoredAgainstScorers ==
    /\ \A k \in 1..Len(results) :
          /\ results[k].total = Len(results[k].picks)
          /\ results[k].correct =
                Cardinality({i \in 1..Len(results[k].picks) : results[k].picks[i].scored})
          /\ 0 <= results[k].correct
          /\ results[k].correct <= results[k].total
          /\ results[k].total <= top_n
    /\ pc = "scored" =>
          LET r == results[Len(results)]
          IN  /\ r.date = cur
              /\ r.total = Min(top_n, Len(stats_list))
              /\ \A i \in 1..Len(r.picks) : r.picks[i].scored <=> (r.picks[i].id \in scorers)
              /\ \A i \in 1..Len(r.picks) :
                    \E j \in 1..Len(players_seen) : players_seen[j].id = r.picks[i].id

\* a day with two candidates and N = 1: one pick, and it did not score
\* although the other candidate did
C10_Witness ==
    /\ pc = "scored"
    /\ top_n = 1
    /\ Len(stats_list) = 2
    /\ results[Len(results)].total = 1
    /\ results[Len(results)].correct = 0
    /\ scorers # {}

\* Scenario B: the day's one finished game had the skaters f, who scored 2
\* goals, and d, who scored none, and the day was scored with N = 3
ScenarioB(f, d) ==
    /\ pc = "scored"
    /\ top_n = DefaultTopN
    /\ played = 1
    /\ f # d
    /\ DOMAIN tally = {f, d}
    /\ tally[f] = 2
    /\ tally[d] = 0

StatsIds == {stats_list[i].id : i \in 1..Len(stats_list)}
StatsRowOf(pid) == stats_list[CHOOSE i \in 1..Len(stats_list) : stats_list[i].id = pid]

\* C11 as stated: in Scenario B the candidate set has size 2, the top-ranked
\* pick is the forward, correctCount = 1 and totalCount = 1.
C11_ScenarioB_Original ==
    \A f, d \in PlayerIds :
        ScenarioB(f, d) =>
            LET r == results[Len(results)]
            IN  /\ Len(stats_list) = 2
                /\ r.picks[1].id = f
                /\ r.correct = 1
                /\ r.total = 1

\* C11, amended: in Scenario B every candidate is picked, so totalCount is
\* the size of the candidate set (2 when both players became candidates)
\* and correctCount is 1 when the forward is a candidate; the forward is the
\* top-ranked pick exactly when the defenseman's season keys (goals, recent
\* goals, goals/game) do not rank before his and either his rank before the
\* defenseman's or he was collected first.
C11_ScenarioB ==
    \A f, d \in PlayerIds :
        ScenarioB(f, d) =>
            LET r == results[Len(results)]
            IN  /\ StatsIds \subseteq {f, d}
                /\ r.total = Len(stats_list)
                /\ r.total = Cardinality(StatsIds)
                /\ r.correct = (IF f \in StatsIds THEN 1 ELSE 0)
                /\ \A i \in 1..Len(r.picks) : r.picks[i].scored <=> r.picks[i].id = f
                /\ Len(stats_list) = 2 =>
                      /\ r.total = 2
                      /\ r.correct = 1
                      /\ r.picks[1].id = f <=>
                            /\ ~LexBefore(StatsRowOf(d), StatsRowOf(f))
                            /\ \/ LexBefore(StatsRowOf(f), StatsRowOf(d))
                               \/ stats_list[1].id = f

\* Scenario B with both players candidates and the forward ranked first
C11_Witness ==
    \E f, d \in PlayerIds :
        /\ ScenarioB(f, d)
        /\ Len(stats_list) = 2
        /\ results[Len(results)].picks[1].id = f
        /\ results[Len(results)].total = 2
        /\ results[Len(results)].correct = 1

\* C12: goals per game is computed only from a season row with gamesPlayed
\* > 0; a player whose season row has gamesPlayed = 0 does not stop the run:
\* the player becomes a candidate with an undefined goals per game, and in
\* the ranked frame no candidate with an undefined rate stands before one
\* with a defined rate and the same goals and recent goals.
C12_ZeroGamesPlayedRanksLast ==
    /\ (call = "landing" /\ curr_season_totals.season = Season
           /\ curr_season_totals.gamesPlayed = 0) =>
          /\ abort = "none"
          /\ pc # "crashed"
          /\ stats_list # <<>>
          /\ stats_list[Len(stats_list)].gpg = Undefined
    /\ (call = "landing" /\ pc # "crashed"
           /\ curr_season_totals.season = Season /\ stats_list # <<>>) =>
          (stats_list[Len(stats_list)].gpg # Undefined
              <=> curr_season_totals.gamesPlayed > 0)
    /\ pc = "scored" =>
          LET ranked == SortValues(stats_list)
          IN  \A i, j \in 1..Len(ranked) :
                  (ranked[i].goals = ranked[j].goals /\ ranked[i].recent = ranked[j].recent
                   /\ ranked[i].gpg = Undefined /\ ranked[j].gpg # Undefined) => j < i

\* C13: once the client is constructed, injured_player_names is a set; a
\* failed injury-report request (HTTP error or network-level failure)
\* raises nothing and leaves the empty set, and no later injured check of
\* populate_player_stats fails on it.
C13_InjuredNamesAlwaysASet ==
    /\ pc # "init" =>
          /\ injury_fetch \in {"ok", "http", "net"}
          /\ Len(injured_player_names) = 1
    /\ injury_fetch \in {"http", "net"} =>
          /\ injured_player_names = <<{}>>
          /\ abort # "RequestException"
          /\ call = "landing" => (abort = "none" /\ pc # "crashed")

\* C14 as stated: while a day is collected and scored, every player of the
\* pool carries the sum of his goals over all the day's collected
\* boxscores, and the scorer set holds exactly the players whose sum is
\* greater than 0.
C14_GoalsAccumulateOverGames ==
    pc \in {"box", "populate", "rank", "scored"} =>
        /\ {players_seen[i].id : i \in 1..Len(players_seen)} = DOMAIN tally
        /\ \A i \in 1..Len(players_seen) :
              players_seen[i].goals_today = tally[players_seen[i].id]
        /\ scorers = {p \in DOMAIN tally : tally[p] > 0}

\* C14, amended: the pool holds exactly the players of the day's collected
\* boxscores, each once, and the scorer set holds exactly those whose goals
\* summed over all these boxscores are greater than 0, whatever the order
\* of the games; the pool entry itself keeps the goals of the player's last
\* appearance, not the sum.
C14_ScorersAreThoseWithGoals ==
    pc \in {"box", "populate", "rank", "scored"} =>
        /\ {players_seen[i].id : i \in 1..Len(players_seen)} = DOMAIN tally
        /\ \A i, j \in 1..Len(players_seen) :
              players_seen[i].id = players_seen[j].id => i = j
        /\ scorers = {p \in DOMAIN tally : tally[p] > 0}
        /\ \A i \in 1..Len(players_seen) :
              players_seen[i].goals_today <= tally[players_seen[i].id]

\* a day of two boxscores with a player collected more than once who
\* scored in an earlier appearance and not in his last
C14_Witness ==
    /\ pc = "populate"
    /\ played = 2
    /\ \E i \in 1..Len(players_seen) :
          /\ players_seen[i].goals_today = 0
          /\ tally[players_seen[i].id] = 2
          /\ players_seen[i].id \in scorers

\* C15: no boxscore is fetched for a game of a sub-date after today; the
\* pool and the scorer set hold only players of boxscores collected in a
\* state other than Future; a day whose boxscores were all Future has an
\* empty candidate frame, gets no result row and is left like a date with
\* an empty schedule.
C15_FutureGamesContributeNobody ==
    /\ pc = "box" =>
          /\ sched # <<>>
          /\ Head(sched).date <= Today
          /\ Head(sched).games > 0
    /\ pc \in {"box", "populate", "rank", "scored"} =>
          /\ {players_seen[i].id : i \in 1..Len(players_seen)} \subseteq DOMAIN tally
          /\ scorers \subseteq DOMAIN tally
          /\ played = 0 =>
                /\ players_seen = <<>>
                /\ scorers = {}
                /\ stats_list = <<>>
                /\ pc \in {"box", "rank"}
                /\ abort = "none"
    /\ \A i \in 1..Len(results) :
          results[i].date = cur => (pc = "scored" /\ played > 0)

\* today's schedule had games, the last boxscore came back, none was in a
\* state other than Future, and the day is about to be left without result
C15_Witness ==
    /\ pc = "rank"
    /\ cur = Today
    /\ call = "boxscore"
    /\ outcome = "ok"
    /\ played = 0
    /\ ~days[Len(days)].nogames
    /\ DfEmpty(stats_list)

\* the positions of the trailing run of active-season rows
TrailingRun(rows) ==
    {i \in 1..Len(rows) : \A j \in i..Len(rows) : rows[j].season = Season}

\* the NHL rows inside the trailing run
TrailingNhl(rows) == {i \in TrailingRun(rows) : rows[i].leagueAbbrev = "NHL"}

\* C16: the season record chosen by the scan is the last-positioned NHL row
\* of the trailing run of active-season rows: trailing rows of other
\* leagues are skipped, no row before a row of another season is chosen,
\* and nothing is chosen when the trailing run has no NHL row.
C16_ScanStopsAtOtherSeason ==
    pc = "scanned" =>
        LET K == TrailingNhl(season_totals)
        IN  /\ K = {} => curr_season_totals = NoRow
            /\ K # {} =>
                  /\ curr_season_totals = season_totals[CHOOSE i \in K : \A j \in K : j <= i]
                  /\ curr_season_totals.season = Season
                  /\ curr_season_totals.leagueAbbrev = "NHL"
            /\ \A i \in 1..Len(season_totals) :
                  (\E j \in i..Len(season_totals) : season_totals[j].season # Season)
                      => curr_season_totals # season_totals[i]

\* an NHL row of the active season, a row of the season before, an NHL and
\* an AHL row of the active season: the third row is the record
C16_Witness ==
    /\ pc = "scanned"
    /\ Len(season_totals) = 4
    /\ season_totals[1].season = Season /\ season_totals[1].leagueAbbrev = "NHL"
    /\ season_totals[2].season = PrevSeason
    /\ season_totals[3].season = Season /\ season_totals[3].leagueAbbrev = "NHL"
    /\ season_totals[4].season = Season /\ season_totals[4].leagueAbbrev = "AHL"
    /\ curr_season_totals = season_totals[3]

RECURSIVE SumPerSet(_, _, _)
SumPerSet(ps, keys, field) ==
    IF keys = {} THEN 0
    ELSE LET k == CHOOSE x \in keys : TRUE
         IN  ps[k][field] + SumPerSet(ps, keys \ {k}, field)

RECURSIVE SumPerDay(_, _)
SumPerDay(rows, field) ==
    IF rows = <<>> THEN 0 ELSE Head(rows)[field] + SumPerDay(Tail(rows), field)

\* the counters agree with each other
HistoryCountersAgree ==
    /\ total_picks = SumPerSet(per_set, DOMAIN per_set, "total")
    /\ total_picks = SumPerDay(per_day_details, "total")
    /\ total_correct = SumPerSet(per_set, DOMAIN per_set, "correct")
    /\ total_correct = SumPerDay(per_day_details, "correct")
    /\ 0 <= total_correct
    /\ total_correct <= total_picks
    /\ \A k \in DOMAIN per_set :
          0 <= per_set[k].correct /\ per_set[k].correct <= per_set[k].total
    /\ \A i \in 1..Len(per_day_details) :
          0 <= per_day_details[i].correct
              /\ per_day_details[i].correct <= per_day_details[i].total
    /\ total_days = Len(per_day_details)
    /\ pc = "evaluated" => (total_picks = 0 => overall_accuracy = 0)

\* what the entry iterated in this step added
HistoryEntryCounted ==
    remaining' < remaining =>
        LET withSet == Cardinality({i \in 1..Len(entry') : entry'[i].has_set})
        IN  /\ EntrySkipped(entry') =>
                  UNCHANGED <<total_days, total_picks, total_correct, per_set,
                              per_day_details>>
            /\ ~EntrySkipped(entry') =>
                  /\ total_picks' = total_picks + withSet
                  /\ total_days' = total_days + 1

\* C18: throughout evaluate_history total_picks is the sum of the per-set
\* totals and of the per-day totals, total_correct the sum of the per-set
\* correct counts, 0 <= correct <= total overall, per set and per day; an
\* entry without picks or without any 'correct' key changes no counter, a
\* pick without 'setId' is not counted, and overall_accuracy is 0 when
\* total_picks is 0.
C18_HistoryCountersConsistent ==
    []HistoryCountersAgree /\ [][HistoryEntryCounted]_vars

\* two entries were counted, one of them with a pick that has no 'setId',
\* and not every counted pick was correct
C18_Witness ==
    /\ pc = "evaluated"
    /\ total_days = 2
    /\ Len(entry) = 2
    /\ \E i \in 1..2 : ~entry[i].has_set
    /\ per_day_details[2].total = 1
    /\ total_picks = 3
    /\ total_correct = 1
    /\ Cardinality(DOMAIN per_set) = 2

====
